---- MODULE Spec2Model ----
(***************************************************************************)
(* A model of the rust_terminal shell: the line-oriented front end         *)
(* (src/src/main.rs) and the windowed front end (src/src/gui.rs), over a   *)
(* small POSIX-like file system.                                           *)
(*                                                                         *)
(* Strings are sequences of one-character strings, so that trimming,       *)
(* whitespace splitting, prefix tests and path joining are computed the    *)
(* way the code computes them.  A file system is a function from absolute  *)
(* paths (sequences of names, <<>> being the root) to "dir" or "file".     *)
(***************************************************************************)
EXTENDS Integers, Sequences, FiniteSets, TLC

VARIABLES
    mode,             \* which binary runs: "cli" (main.rs) or "gui" (main_gui.rs)
    fs,               \* the file system
    cwd,              \* the process's working directory (a path), set by chdir
    cwd_dead,         \* how many trailing components of cwd have been removed
    pc,               \* CLI: where main is: "top" of the loop, at the "match" on
                      \* the line read, at the "end" of an iteration, or at "exit"
    line,             \* CLI: what read_input returned in this iteration
    cli_out,          \* CLI: what this iteration of the loop has written so far
    input,            \* GUI: TerminalApp.input
    output,           \* GUI: TerminalApp.output
    current_dir,      \* GUI: TerminalApp.current_dir
    command_history,  \* GUI: TerminalApp.command_history
    history_index,    \* GUI: TerminalApp.history_index
    ev                \* the handler that ran last, with the command it dispatched

vars == <<mode, fs, cwd, cwd_dead, pc, line, cli_out, input, output,
          current_dir, command_history, history_index, ev>>

cliVars == <<pc, line, cli_out>>
guiVars == <<input, output, current_dir, command_history, history_index>>

----------------------------------------------------------------------------
(* Bounds of the model.                                                    *)

\* the GUI executes at most this many commands in a run of Spec
MaxCmds == 2
\* the GUI executes at most this many commands in a run of SpecHist
MaxHist == 3
\* no command makes the file system grow beyond this many entries besides
\* the root
MaxNodes == 2

\* gui.rs:112, the number of lines the output buffer keeps
MaxOutput == 1000

----------------------------------------------------------------------------
(* Strings.                                                                *)

SP == " "
TAB == "\t"

IsWs(c) == c \in {SP, TAB, "\n", "\r"}

RECURSIVE TrimStart(_)
TrimStart(s) ==
    IF s # <<>> /\ IsWs(Head(s)) THEN TrimStart(Tail(s)) ELSE s

RECURSIVE TrimEnd(_)
TrimEnd(s) ==
    IF s # <<>> /\ IsWs(s[Len(s)]) THEN TrimEnd(SubSeq(s, 1, Len(s) - 1)) ELSE s

\* str::trim
Trim(s) == TrimEnd(TrimStart(s))

RECURSIVE SplitOn(_, _, _, _)
\* the maximal runs of s holding no character of seps, in order
SplitOn(s, seps, cur, acc) ==
    IF s = <<>>
    THEN IF cur = <<>> THEN acc ELSE Append(acc, cur)
    ELSE IF Head(s) \in seps
         THEN SplitOn(Tail(s), seps, <<>>, IF cur = <<>> THEN acc ELSE Append(acc, cur))
         ELSE SplitOn(Tail(s), seps, Append(cur, Head(s)), acc)

\* str::split_whitespace, collected
SplitWhitespace(s) == SplitOn(s, {SP, TAB, "\n", "\r"}, <<>>, <<>>)

StartsWith(s, p) == Len(p) <= Len(s) /\ SubSeq(s, 1, Len(p)) = p
EndsWithChar(s, c) == s # <<>> /\ s[Len(s)] = c

RECURSIVE TrimEndMatches(_, _)
\* str::trim_end_matches(c)
TrimEndMatches(s, c) ==
    IF EndsWithChar(s, c) THEN TrimEndMatches(SubSeq(s, 1, Len(s) - 1), c) ELSE s

\* the code points of the characters the model's names use (for str's Ord)
Code(c) ==
    CASE c = TAB -> 9 [] c = SP -> 32 [] c = "-" -> 45 [] c = "." -> 46 [] c = "/" -> 47
      [] c = "b" -> 98 [] c = "c" -> 99 [] c = "d" -> 100 [] c = "f" -> 102
      [] c = "i" -> 105 [] c = "l" -> 108 [] c = "m" -> 109 [] c = "n" -> 110
      [] c = "o" -> 111 [] c = "p" -> 112 [] c = "r" -> 114 [] c = "s" -> 115
      [] c = "t" -> 116 [] c = "v" -> 118 [] c = "w" -> 119 [] c = "x" -> 120
      [] OTHER -> 127

RECURSIVE StrLess(_, _)
\* s < t in str's (lexicographic, by code point) order
StrLess(s, t) ==
    IF t = <<>> THEN FALSE
    ELSE IF s = <<>> THEN TRUE
    ELSE IF Head(s) = Head(t) THEN StrLess(Tail(s), Tail(t))
    ELSE Code(Head(s)) < Code(Head(t))

RECURSIVE Insert(_, _)
Insert(x, sorted) ==
    IF sorted = <<>> THEN <<x>>
    ELSE IF StrLess(Head(sorted), x) \/ Head(sorted) = x
         THEN <<Head(sorted)>> \o Insert(x, Tail(sorted))
         ELSE <<x>> \o sorted

RECURSIVE SortStrs(_)
\* Vec<String>::sort
SortStrs(ss) == IF ss = <<>> THEN <<>> ELSE Insert(Head(ss), SortStrs(Tail(ss)))

RECURSIVE SetToSeq(_)
\* the elements of a finite set in some order (read_dir's order is unspecified)
SetToSeq(S) ==
    IF S = {} THEN <<>>
    ELSE LET x == CHOOSE y \in S : TRUE IN <<x>> \o SetToSeq(S \ {x})

----------------------------------------------------------------------------
(* std::path::Path, on strings.                                            *)

SLASH == "/"
DOT == <<".">>
DOTDOT == <<".", ".">>

\* Path::is_absolute (Unix)
IsAbsolute(s) == s # <<>> /\ s[1] = SLASH

\* the components of a path string as the kernel walks them
SplitPath(s) == SplitOn(s, {SLASH}, <<>>, <<>>)

\* Path::join: an absolute rel replaces base
Join(base, rel) ==
    IF IsAbsolute(rel) THEN rel
    ELSE IF base = <<>> \/ EndsWithChar(base, SLASH) THEN base \o rel
    ELSE base \o <<SLASH>> \o rel

RECURSIVE DropDots(_)
\* Path::components drops "." components (other than a leading one)
DropDots(cs) ==
    IF cs = <<>> THEN <<>>
    ELSE IF Head(cs) = DOT THEN DropDots(Tail(cs))
    ELSE <<Head(cs)>> \o DropDots(Tail(cs))

\* Path::file_name, <<>> standing for None
FileName(s) ==
    LET cs == DropDots(SplitPath(s))
    IN  IF cs = <<>> \/ cs[Len(cs)] = DOTDOT THEN <<>> ELSE cs[Len(cs)]

RECURSIVE LastSlash(_)
\* the index of the last '/' of s, 0 when there is none
LastSlash(s) ==
    IF s = <<>> THEN 0
    ELSE IF s[Len(s)] = SLASH THEN Len(s)
    ELSE LastSlash(SubSeq(s, 1, Len(s) - 1))

\* Path::parent of a path that does not end with '/', as a string: "" for a
\* single relative component, "/" for a child of the root
Parent(s) ==
    LET i == LastSlash(s)
    IN  IF i = 0 THEN <<>>
        ELSE IF i = 1 THEN <<SLASH>>
        ELSE SubSeq(s, 1, i - 1)

RECURSIVE PathStrRec(_)
PathStrRec(p) ==
    IF p = <<>> THEN <<>> ELSE <<SLASH>> \o Head(p) \o PathStrRec(Tail(p))

\* the absolute path string of a path (what canonicalize and getcwd return)
PathStr(p) == IF p = <<>> THEN <<SLASH>> ELSE PathStrRec(p)

----------------------------------------------------------------------------
(* The operating system: path lookup and the directory system calls.  A    *)
(* world w is the file system w.fs together with the calling process's     *)
(* working directory w.p; w.dead > 0 says that the last w.dead components  *)
(* of w.p have been removed while the process stayed inside: "." and ".."  *)
(* still resolve there, nothing else does.                                 *)

OK == "OK"

IsPrefix(q, p) == Len(q) <= Len(p) /\ SubSeq(p, 1, Len(q)) = q

Max(S) == CHOOSE x \in S : \A y \in S : y <= x

RootNode == [err |-> OK, p |-> <<>>, dead |-> 0]
ErrNode(e) == [err |-> e, p |-> <<>>, dead |-> 0]

NodeIsDir(f, n) == n.err = OK /\ (n.dead > 0 \/ f[n.p] = "dir")
NodeIsFile(f, n) == n.err = OK /\ n.dead = 0 /\ f[n.p] = "file"

Children(f, p) == {q \in DOMAIN f : Len(q) = Len(p) + 1 /\ IsPrefix(p, q)}

RECURSIVE Walk(_, _, _)
\* the kernel's path walk from node n over the components cs
Walk(f, n, cs) ==
    IF cs = <<>> \/ n.err # OK THEN n
    ELSE IF ~NodeIsDir(f, n) THEN ErrNode("ENOTDIR")
    ELSE LET c == Head(cs)
             next == IF c = DOT THEN n
                     ELSE IF c = DOTDOT
                          THEN IF n.p = <<>> THEN n
                               ELSE [err |-> OK, p |-> SubSeq(n.p, 1, Len(n.p) - 1),
                                     dead |-> IF n.dead > 0 THEN n.dead - 1 ELSE 0]
                     ELSE IF n.dead = 0 /\ Append(n.p, c) \in DOMAIN f
                          THEN [err |-> OK, p |-> Append(n.p, c), dead |-> 0]
                          ELSE ErrNode("ENOENT")
         IN  Walk(f, next, Tail(cs))

StartNode(w, s) ==
    IF IsAbsolute(s) THEN RootNode ELSE [err |-> OK, p |-> w.p, dead |-> w.dead]

\* stat(2): the node a path string names
Stat(w, s) ==
    IF s = <<>> THEN ErrNode("ENOENT")
    ELSE LET n == Walk(w.fs, StartNode(w, s), SplitPath(s))
         IN  IF n.err = OK /\ EndsWithChar(s, SLASH) /\ ~NodeIsDir(w.fs, n)
             THEN ErrNode("ENOTDIR") ELSE n

\* Path::exists, Path::is_dir, Path::is_file
PathExists(w, s) == Stat(w, s).err = OK
PathIsDir(w, s) == NodeIsDir(w.fs, Stat(w, s))
PathIsFile(w, s) == NodeIsFile(w.fs, Stat(w, s))

\* the directory holding the last component of s
ParentNode(w, s) ==
    LET cs == SplitPath(s)
    IN  Walk(w.fs, StartNode(w, s), SubSeq(cs, 1, Len(cs) - 1))

LastComp(s) == LET cs == SplitPath(s) IN cs[Len(cs)]

\* the world after the entries `gone` have been removed
Without(w, gone) ==
    [fs |-> [q \in DOMAIN w.fs \ gone |-> w.fs[q]],
     p |-> w.p,
     dead |-> Max({w.dead} \cup {Len(w.p) - Len(q) + 1 : q \in {g \in gone : IsPrefix(g, w.p)}})]

Res(w, e) == [w |-> w, err |-> e]

\* chdir(2) (env::set_current_dir)
Chdir(w, s) ==
    LET n == Stat(w, s)
    IN  IF n.err # OK THEN Res(w, n.err)
        ELSE IF ~NodeIsDir(w.fs, n) THEN Res(w, "ENOTDIR")
        ELSE Res([w EXCEPT !.p = n.p, !.dead = n.dead], OK)

\* mkdir(2) (fs::create_dir)
Mkdir(w, s) ==
    IF s = <<>> THEN Res(w, "ENOENT")
    ELSE IF SplitPath(s) = <<>> THEN Res(w, "EEXIST")
    ELSE LET par == ParentNode(w, s)
             c == LastComp(s)
         IN  IF par.err # OK THEN Res(w, par.err)
             ELSE IF ~NodeIsDir(w.fs, par) THEN Res(w, "ENOTDIR")
             ELSE IF c \in {DOT, DOTDOT} THEN Res(w, "EEXIST")
             ELSE IF par.dead > 0 THEN Res(w, "ENOENT")
             ELSE IF Append(par.p, c) \in DOMAIN w.fs THEN Res(w, "EEXIST")
             ELSE Res([w EXCEPT !.fs = [q \in DOMAIN w.fs \cup {Append(par.p, c)} |->
                                          IF q \in DOMAIN w.fs THEN w.fs[q] ELSE "dir"]],
                      OK)

\* rmdir(2) (fs::remove_dir)
Rmdir(w, s) ==
    IF s = <<>> THEN Res(w, "ENOENT")
    ELSE IF SplitPath(s) = <<>> THEN Res(w, "EBUSY")
    ELSE LET par == ParentNode(w, s)
             c == LastComp(s)
             q == Append(par.p, c)
         IN  IF par.err # OK THEN Res(w, par.err)
             ELSE IF ~NodeIsDir(w.fs, par) THEN Res(w, "ENOTDIR")
             ELSE IF c = DOT THEN Res(w, "EINVAL")
             ELSE IF c = DOTDOT THEN Res(w, "ENOTEMPTY")
             ELSE IF par.dead > 0 \/ q \notin DOMAIN w.fs THEN Res(w, "ENOENT")
             ELSE IF w.fs[q] # "dir" THEN Res(w, "ENOTDIR")
             ELSE IF Children(w.fs, q) # {} THEN Res(w, "ENOTEMPTY")
             ELSE Res(Without(w, {q}), OK)

\* unlink(2) (fs::remove_file)
Unlink(w, s) ==
    IF s = <<>> THEN Res(w, "ENOENT")
    ELSE IF SplitPath(s) = <<>> THEN Res(w, "EISDIR")
    ELSE LET par == ParentNode(w, s)
             c == LastComp(s)
             q == Append(par.p, c)
         IN  IF par.err # OK THEN Res(w, par.err)
             ELSE IF ~NodeIsDir(w.fs, par) THEN Res(w, "ENOTDIR")
             ELSE IF c \in {DOT, DOTDOT} THEN Res(w, "EISDIR")
             ELSE IF par.dead > 0 \/ q \notin DOMAIN w.fs THEN Res(w, "ENOENT")
             ELSE IF w.fs[q] = "dir" THEN Res(w, "EISDIR")
             ELSE IF EndsWithChar(s, SLASH) THEN Res(w, "ENOTDIR")
             ELSE Res(Without(w, {q}), OK)

\* fs::remove_dir_all on a directory: everything below it is removed through
\* the open directory, then the directory itself by rmdir of the path
RemoveDirAll(w, s) ==
    LET n == Stat(w, s)
    IN  IF n.err # OK THEN Res(w, n.err)
        ELSE IF ~NodeIsDir(w.fs, n) THEN Res(w, "ENOTDIR")
        ELSE LET below == IF n.dead > 0 THEN {}
                          ELSE {q \in DOMAIN w.fs : IsPrefix(n.p, q) /\ q # n.p}
             IN  Rmdir(Without(w, below), s)

\* fs::read_dir: the names in a directory with "is a directory" for each, or
\* an error
ReadDir(w, s) ==
    LET n == Stat(w, s)
    IN  IF n.err # OK THEN [err |-> n.err, names |-> {}]
        ELSE IF ~NodeIsDir(w.fs, n) THEN [err |-> "ENOTDIR", names |-> {}]
        ELSE [err |-> OK,
              names |-> IF n.dead > 0 THEN {}
                        ELSE {q[Len(q)] : q \in Children(w.fs, n.p)}]

\* getcwd(3) (env::current_dir): fails in a removed directory
GetCwd(w) == IF w.dead > 0 THEN [err |-> "ENOENT", s |-> <<>>]
             ELSE [err |-> OK, s |-> PathStr(w.p)]

----------------------------------------------------------------------------
(* What both front ends share: terminal lines and the rm option scan.      *)

\* one line written to the terminal or pushed to the output buffer: the
\* text before the argument, the argument, and the reason after it
Msg(k, a, e) == [k |-> k, a |-> a, e |-> e]

\* $HOME, the target of a bare `cd`
Home == <<"/", "s", "r", "c">>

\* width of an `ls` column and number of columns of a row
LsWidth == 20
LsCols == 4

RECURSIVE PadRight(_, _)
\* format!("{:<20}", s)
PadRight(s, n) == IF Len(s) >= n THEN s ELSE PadRight(Append(s, SP), n)

\* the `ls` entries of a directory: each name, with '/' after a directory,
\* sorted
LsEntries(w, dirstr, names) ==
    SortStrs(SetToSeq({IF PathIsDir(w, Join(dirstr, nm)) THEN Append(nm, SLASH) ELSE nm
                        : nm \in names}))

RECURSIVE LsRows(_, _, _, _)
\* the rows `ls` writes: LsCols padded entries a row, the last row shorter
LsRows(files, i, row, acc) ==
    IF i > Len(files)
    THEN IF row = <<>> THEN acc ELSE Append(acc, Msg("", row, ""))
    ELSE LET r == row \o PadRight(files[i], LsWidth)
         IN  IF i % LsCols = 0
             THEN LsRows(files, i + 1, <<>>, Append(acc, Msg("", r, "")))
             ELSE LsRows(files, i + 1, r, acc)

\* the outcomes of running an external program: it cannot be started, or
\* it ends with a status, having written nout and nerr lines
NoExt == [kind |-> "none", nout |-> 0, nerr |-> 0]
ExtOutcomes(big) ==
    {[kind |-> "notfound", nout |-> 0, nerr |-> 0],
     [kind |-> "ok", nout |-> 0, nerr |-> 0],
     [kind |-> "ok", nout |-> 1, nerr |-> 1],
     [kind |-> "fail", nout |-> 0, nerr |-> 1],
     [kind |-> "signal", nout |-> 0, nerr |-> 0],
     [kind |-> "ok", nout |-> big, nerr |-> 0]}

RECURSIVE ScanFlagsLenient(_, _)
\* an option scan that passes over the characters that are not f, r or R
ScanFlagsLenient(chars, st) ==
    IF chars = <<>> THEN st
    ELSE LET ch == Head(chars)
         IN  IF ch = "f" THEN ScanFlagsLenient(Tail(chars), [st EXCEPT !.force = TRUE])
             ELSE IF ch \in {"r", "R"}
                  THEN ScanFlagsLenient(Tail(chars), [st EXCEPT !.recursive = TRUE])
             ELSE ScanFlagsLenient(Tail(chars), st)

RECURSIVE ScanFlags(_, _)
\* the characters of one option token after the '-': main.rs stops at the
\* first that is not f, r or R
ScanFlags(chars, st) ==
    IF chars = <<>> \/ st.bad # "" THEN st
    ELSE LET ch == Head(chars)
         IN  IF ch = "f" THEN ScanFlags(Tail(chars), [st EXCEPT !.force = TRUE])
             ELSE IF ch \in {"r", "R"}
                  THEN ScanFlags(Tail(chars), [st EXCEPT !.recursive = TRUE])
             ELSE [st EXCEPT !.bad = ch]

RECURSIVE ParseRm(_, _)
\* main.rs: the option scan of remove_files, over all the arguments
ParseRm(args, st) ==
    IF args = <<>> \/ st.bad # "" THEN st
    ELSE LET arg == Head(args)
         IN  IF StartsWith(arg, <<"-">>)
             THEN ParseRm(Tail(args), ScanFlags(Tail(arg), st))
             ELSE ParseRm(Tail(args), [st EXCEPT !.files = Append(@, arg)])

RmStart == [force |-> FALSE, recursive |-> FALSE, files |-> <<>>, bad |-> ""]

RECURSIVE GuiScanFlags(_, _)
\* gui.rs: the same scan, any other character ignored
GuiScanFlags(chars, st) ==
    IF chars = <<>> THEN st
    ELSE LET ch == Head(chars)
         IN  IF ch = "f" THEN GuiScanFlags(Tail(chars), [st EXCEPT !.force = TRUE])
             ELSE IF ch \in {"r", "R"}
                  THEN GuiScanFlags(Tail(chars), [st EXCEPT !.recursive = TRUE])
             ELSE GuiScanFlags(Tail(chars), st)

RECURSIVE GuiParseRm(_, _)
GuiParseRm(args, st) ==
    IF args = <<>> THEN st
    ELSE LET arg == Head(args)
         IN  IF StartsWith(arg, <<"-">>)
             THEN GuiParseRm(Tail(args), GuiScanFlags(Tail(arg), st))
             ELSE GuiParseRm(Tail(args), [st EXCEPT !.files = Append(@, arg)])

----------------------------------------------------------------------------
(* The line-oriented front end, src/src/main.rs.  A handler takes the      *)
(* world and its arguments and gives the world after it and the lines it   *)
(* wrote: [w |-> ..., out |-> ...].                                        *)

Did(w, out) == [w |-> w, out |-> out]

\* print_prompt: the name of the working directory, "?" when there is none
print_prompt(w) ==
    LET c == GetCwd(w)
        name == IF c.err # OK THEN <<"?">>
                ELSE IF FileName(c.s) = <<>> THEN <<"?">> ELSE FileName(c.s)
    IN  Msg("prompt", name \o <<">", SP>>, "")

\* change_directory
change_directory(w, args) ==
    LET new_dir == IF args = <<>> THEN Home ELSE args[1]
        r == Chdir(w, new_dir)
    IN  IF r.err # OK THEN Did(w, <<Msg("cd", new_dir, r.err)>>)
        ELSE Did(r.w, <<>>)

\* get_path_completions: the sorted candidates, <<>> standing for None
get_path_completions(w, partial) ==
    LET slash == EndsWithChar(partial, SLASH)
        dir_path == IF slash THEN partial
                    ELSE IF partial = <<>> THEN DOT
                    ELSE Parent(partial)
        file_prefix == IF slash \/ partial = <<>> THEN <<>> ELSE FileName(partial)
        entries == ReadDir(w, dir_path)
        completion(nm) ==
            LET c == IF dir_path = DOT THEN nm
                     ELSE IF slash THEN partial \o nm
                     ELSE dir_path \o <<SLASH>> \o nm
            IN  IF PathIsDir(w, Join(dir_path, nm)) THEN Append(c, SLASH) ELSE c
    IN  IF entries.err # OK THEN <<>>
        ELSE SortStrs(SetToSeq({completion(nm) :
                 nm \in {x \in entries.names :
                           file_prefix = <<>> \/ StartsWith(x, file_prefix)}}))

\* handle_cd_with_completion
handle_cd_with_completion(w, args) ==
    IF args = <<>> THEN change_directory(w, <<>>)
    ELSE LET path == args[1]
         IN  IF EndsWithChar(path, TAB)
             THEN LET completions == get_path_completions(w, TrimEndMatches(path, TAB))
                  IN  IF Len(completions) = 1
                      THEN change_directory(w, <<completions[1]>>)
                      ELSE IF completions # <<>>
                      THEN Did(w, <<Msg("Possible completions:", <<>>, "")>> \o
                                  [i \in 1..Len(completions) |->
                                      Msg("  ", completions[i], "")])
                      ELSE Did(w, <<>>)
             ELSE change_directory(w, args)

\* print_working_directory
print_working_directory(w) ==
    LET c == GetCwd(w)
    IN  IF c.err = OK THEN Did(w, <<Msg("", c.s, "")>>)
        ELSE Did(w, <<Msg("pwd", <<>>, c.err)>>)

\* clear_screen
clear_screen(w) == Did(w, <<Msg("ESC[2J ESC[1;1H", <<>>, "")>>)

\* print_help (the text is fixed; one line stands for it)
print_help(w) == Did(w, <<Msg("=== Simple Terminal - Available Commands ===", <<>>, "")>>)

\* remove_files: what is reported of the result r of removing a target
rm_report(st, file, force, r) ==
    IF r.err # OK /\ ~force
    THEN Did(r.w, Append(st.out, Msg("rm: cannot remove", file, r.err)))
    ELSE Did(r.w, st.out)

\* a target of rm that is reported missing whether or not -f is given
rm_one_force_reports(st, file, force, recursive) ==
    IF ~PathExists(st.w, file)
    THEN Did(st.w, Append(st.out, Msg("rm: cannot remove", file,
                                      "No such file or directory")))
    ELSE IF PathIsDir(st.w, file)
    THEN IF recursive
         THEN rm_report(st, file, force, RemoveDirAll(st.w, file))
         ELSE Did(st.w, Append(st.out, Msg("rm: cannot remove", file, "Is a directory")))
    ELSE rm_report(st, file, force, Unlink(st.w, file))

\* remove_files, one target of the loop
\* a removal for which -f stands for -r on a directory
rm_one_force_takes_dir(st, file, force, recursive) ==
    IF ~PathExists(st.w, file)
    THEN IF ~force
         THEN Did(st.w, Append(st.out, Msg("rm: cannot remove", file,
                                           "No such file or directory")))
         ELSE st
    ELSE IF PathIsDir(st.w, file)
    THEN IF recursive \/ force
         THEN rm_report(st, file, force, RemoveDirAll(st.w, file))
         ELSE Did(st.w, Append(st.out, Msg("rm: cannot remove", file, "Is a directory")))
    ELSE rm_report(st, file, force, Unlink(st.w, file))

rm_one(st, file, force, recursive) ==
    IF ~PathExists(st.w, file)
    THEN IF ~force
         THEN Did(st.w, Append(st.out, Msg("rm: cannot remove", file,
                                           "No such file or directory")))
         ELSE st
    ELSE IF PathIsDir(st.w, file)
    THEN IF recursive
         THEN rm_report(st, file, force, RemoveDirAll(st.w, file))
         ELSE Did(st.w, Append(st.out, Msg("rm: cannot remove", file, "Is a directory")))
    ELSE rm_report(st, file, force, Unlink(st.w, file))

RECURSIVE rm_loop(_, _, _, _)
rm_loop(st, files, force, recursive) ==
    IF files = <<>> THEN st
    ELSE rm_loop(rm_one(st, Head(files), force, recursive), Tail(files), force, recursive)

\* remove_files
remove_files(w, args) ==
    IF args = <<>>
    THEN Did(w, <<Msg("rm: missing operand", <<>>, ""),
                  Msg("Try 'rm --help' for more information.", <<>>, "")>>)
    ELSE LET o == ParseRm(args, RmStart)
         IN  IF o.bad # "" THEN Did(w, <<Msg("rm: invalid option --", <<o.bad>>, "")>>)
             ELSE IF o.files = <<>> THEN Did(w, <<Msg("rm: missing operand", <<>>, "")>>)
             ELSE rm_loop(Did(w, <<>>), o.files, o.force, o.recursive)

\* remove_directories: what is reported of the result r of rmdir
rmdir_report(st, dir, r) ==
    IF r.err # OK
    THEN Did(r.w, Append(st.out, Msg("rmdir: failed to remove", dir, r.err)))
    ELSE Did(r.w, st.out)

\* remove_directories, one target of the loop
rmdir_one(st, dir) ==
    IF ~PathExists(st.w, dir)
    THEN Did(st.w, Append(st.out, Msg("rmdir: failed to remove", dir,
                                      "No such file or directory")))
    ELSE IF ~PathIsDir(st.w, dir)
    THEN Did(st.w, Append(st.out, Msg("rmdir: failed to remove", dir, "Not a directory")))
    ELSE rmdir_report(st, dir, Rmdir(st.w, dir))

RECURSIVE rmdir_loop_stops(_, _)
\* a loop over the targets of rmdir that ends at the first one that fails
rmdir_loop_stops(st, dirs) ==
    IF dirs = <<>> THEN st
    ELSE IF Len(rmdir_one(st, Head(dirs)).out) > Len(st.out)
    THEN rmdir_one(st, Head(dirs))
    ELSE rmdir_loop_stops(rmdir_one(st, Head(dirs)), Tail(dirs))

RECURSIVE rmdir_loop(_, _)
\* remove_directories, the loop over the targets
rmdir_loop(st, dirs) ==
    IF dirs = <<>> THEN st ELSE rmdir_loop(rmdir_one(st, Head(dirs)), Tail(dirs))

\* remove_directories
remove_directories(w, args) ==
    IF args = <<>>
    THEN Did(w, <<Msg("rmdir: missing operand", <<>>, ""),
                  Msg("Try 'rmdir --help' for more information.", <<>>, "")>>)
    ELSE rmdir_loop(Did(w, <<>>), args)

\* make_directories: what is reported of the result r of mkdir
mkdir_report(st, dir, r) ==
    IF r.err # OK
    THEN Did(r.w, Append(st.out, Msg("mkdir: cannot create directory", dir, r.err)))
    ELSE Did(r.w, st.out)

\* a target of mkdir that is passed over in silence when it exists
mkdir_one_silent(st, dir) ==
    IF PathExists(st.w, dir) THEN st ELSE mkdir_report(st, dir, Mkdir(st.w, dir))

\* make_directories, one target of the loop
mkdir_one(st, dir) ==
    IF PathExists(st.w, dir)
    THEN Did(st.w, Append(st.out, Msg("mkdir: cannot create directory", dir, "File exists")))
    ELSE mkdir_report(st, dir, Mkdir(st.w, dir))

RECURSIVE mkdir_loop(_, _)
mkdir_loop(st, dirs) ==
    IF dirs = <<>> THEN st ELSE mkdir_loop(mkdir_one(st, Head(dirs)), Tail(dirs))

\* make_directories
make_directories(w, args) ==
    IF args = <<>>
    THEN Did(w, <<Msg("mkdir: missing operand", <<>>, ""),
                  Msg("Try 'mkdir --help' for more information.", <<>>, "")>>)
    ELSE mkdir_loop(Did(w, <<>>), args)

\* list_directory
list_directory(w, args) ==
    LET dir == IF args = <<>> THEN DOT ELSE args[1]
        r == ReadDir(w, dir)
    IN  IF r.err # OK THEN Did(w, <<Msg("ls: cannot access", dir, r.err)>>)
        ELSE Did(w, LsRows(LsEntries(w, dir, r.names), 1, <<>>, <<>>))

\* execute_external_command: the child writes to the terminal itself
execute_external_command(w, command, ext) ==
    LET child == [i \in 1..ext.nout |-> Msg("child stdout", <<>>, "")] \o
                 [i \in 1..ext.nerr |-> Msg("child stderr", <<>>, "")]
    IN  IF ext.kind = "notfound"
        THEN Did(w, <<Msg("", command, "command not found")>>)
        ELSE IF ext.kind = "fail"
        THEN Did(w, Append(child, Msg("Command exited with status:", <<>>, "")))
        ELSE Did(w, child)

S_exit == <<"e", "x", "i", "t">>
S_quit == <<"q", "u", "i", "t">>
S_cd == <<"c", "d">>
S_pwd == <<"p", "w", "d">>
S_clear == <<"c", "l", "e", "a", "r">>
S_help == <<"h", "e", "l", "p">>
S_rm == <<"r", "m">>
S_rmdir == <<"r", "m", "d", "i", "r">>
S_mkdir == <<"m", "k", "d", "i", "r">>
S_ls == <<"l", "s">>
Builtins == {S_exit, S_quit, S_cd, S_pwd, S_clear, S_help, S_rm, S_rmdir, S_mkdir, S_ls}

\* the command word of a line, <<>> when it has none
CommandOf(l) == LET parts == SplitWhitespace(Trim(l)) IN
                IF parts = <<>> THEN <<>> ELSE parts[1]
IsExternal(l) == CommandOf(l) # <<>> /\ CommandOf(l) \notin Builtins

\* read_input on a line of the terminal: Some(trimmed)
read_input(raw) == Trim(raw \o <<"\n">>)

\* main's loop from the test of the line read to the end of the iteration:
\* the world after it, what it wrote, and whether the loop goes on
main_dispatch(w, inp, ext) ==
    LET parts == SplitWhitespace(inp)
        go(d) == [w |-> d.w, out |-> d.out, running |-> TRUE]
    IN  IF inp = <<>> \/ parts = <<>> THEN go(Did(w, <<>>))
        ELSE LET command == parts[1]
                 args == Tail(parts)
             IN  IF command \in {S_exit, S_quit}
                 THEN [w |-> w, out |-> <<Msg("goodbye", <<>>, "")>>, running |-> FALSE]
                 ELSE IF command = S_cd THEN go(handle_cd_with_completion(w, args))
                 ELSE IF command = S_pwd THEN go(print_working_directory(w))
                 ELSE IF command = S_clear THEN go(clear_screen(w))
                 ELSE IF command = S_help THEN go(print_help(w))
                 ELSE IF command = S_rm THEN go(remove_files(w, args))
                 ELSE IF command = S_rmdir THEN go(remove_directories(w, args))
                 ELSE IF command = S_mkdir THEN go(make_directories(w, args))
                 ELSE IF command = S_ls THEN go(list_directory(w, args))
                 ELSE go(execute_external_command(w, command, ext))

----------------------------------------------------------------------------
(* The windowed front end, src/src/gui.rs.  A handler takes the world, the *)
(* current_dir field, the output buffer and its arguments, and gives them  *)
(* back: [w |-> ..., dir |-> ..., out |-> ...].                            *)

Gui(w, dir, out) == [w |-> w, dir |-> dir, out |-> out]

\* number of lines of show_help's text
HelpLines == 21

\* the path a built-in of the GUI works on
GuiPath(dir, arg) == IF IsAbsolute(arg) THEN arg ELSE Join(dir, arg)

\* TerminalApp::get_dir_name
get_dir_name(dir) == IF FileName(dir) = <<>> THEN <<"?">> ELSE FileName(dir)

\* TerminalApp::change_directory
gui_cd_to(g, canonical) ==
    Gui(g.w, canonical, Append(g.out, Msg("Changed to:", canonical, "")))

\* a change of directory that only asks whether the path exists
gui_cd_path_any(g, new_dir, path) ==
    IF PathExists(g.w, path)
    THEN gui_cd_to(g, PathStr(Stat(g.w, path).p))
    ELSE Gui(g.w, g.dir, Append(g.out, Msg("cd", new_dir, "No such directory")))

gui_cd_path(g, new_dir, path) ==
    IF PathExists(g.w, path) /\ PathIsDir(g.w, path)
    THEN gui_cd_to(g, PathStr(Stat(g.w, path).p))
    ELSE Gui(g.w, g.dir, Append(g.out, Msg("cd", new_dir, "No such directory")))

gui_cd_arg(g, new_dir) == gui_cd_path(g, new_dir, GuiPath(g.dir, new_dir))

gui_change_directory(g, args) == gui_cd_arg(g, IF args = <<>> THEN Home ELSE args[1])

\* TerminalApp::list_directory
gui_ls_report(g, dir, path, r) ==
    IF r.err # OK THEN Gui(g.w, g.dir, Append(g.out, Msg("ls", dir, r.err)))
    ELSE Gui(g.w, g.dir, g.out \o LsRows(LsEntries(g.w, path, r.names), 1, <<>>, <<>>))

gui_ls_path(g, dir, path) == gui_ls_report(g, dir, path, ReadDir(g.w, path))

gui_list_directory(g, args) ==
    LET dir == IF args = <<>> THEN g.dir ELSE args[1]
    IN  gui_ls_path(g, dir, GuiPath(g.dir, dir))

\* TerminalApp::make_directory, one target of the loop
\* a mkdir that moves into the directory it has created
gui_mkdir_report_enters(g, dir, r) ==
    IF r.err = OK
    THEN Gui(r.w, PathStr(Stat(r.w, GuiPath(g.dir, dir)).p),
             Append(g.out, Msg("Created directory:", dir, "")))
    ELSE Gui(r.w, g.dir, Append(g.out, Msg("mkdir", dir, r.err)))

gui_mkdir_report(g, dir, r) ==
    IF r.err = OK
    THEN Gui(r.w, g.dir, Append(g.out, Msg("Created directory:", dir, "")))
    ELSE Gui(r.w, g.dir, Append(g.out, Msg("mkdir", dir, r.err)))

gui_mkdir_one(g, dir) == gui_mkdir_report(g, dir, Mkdir(g.w, GuiPath(g.dir, dir)))

RECURSIVE gui_mkdir_loop(_, _)
gui_mkdir_loop(g, dirs) ==
    IF dirs = <<>> THEN g ELSE gui_mkdir_loop(gui_mkdir_one(g, Head(dirs)), Tail(dirs))

\* TerminalApp::make_directory
make_directory(g, args) ==
    IF args = <<>> THEN Gui(g.w, g.dir, Append(g.out, Msg("mkdir: missing operand", <<>>, "")))
    ELSE gui_mkdir_loop(g, args)

\* TerminalApp::remove_directory, one target of the loop
gui_rmdir_report(g, dir, r) ==
    IF r.err = OK
    THEN Gui(r.w, g.dir, Append(g.out, Msg("Removed directory:", dir, "")))
    ELSE Gui(r.w, g.dir, Append(g.out, Msg("rmdir", dir, r.err)))

gui_rmdir_one(g, dir) == gui_rmdir_report(g, dir, Rmdir(g.w, GuiPath(g.dir, dir)))

RECURSIVE gui_rmdir_loop(_, _)
gui_rmdir_loop(g, dirs) ==
    IF dirs = <<>> THEN g ELSE gui_rmdir_loop(gui_rmdir_one(g, Head(dirs)), Tail(dirs))

\* TerminalApp::remove_directory
remove_directory(g, args) ==
    IF args = <<>> THEN Gui(g.w, g.dir, Append(g.out, Msg("rmdir: missing operand", <<>>, "")))
    ELSE gui_rmdir_loop(g, args)

\* TerminalApp::remove_file, one target of the loop
gui_rm_report(g, file, force, r) ==
    IF r.err = OK
    THEN Gui(r.w, g.dir, Append(g.out, Msg("Removed:", file, "")))
    ELSE IF ~force THEN Gui(r.w, g.dir, Append(g.out, Msg("rm", file, r.err)))
    ELSE Gui(r.w, g.dir, g.out)

\* a removal that passes over a missing target in silence
gui_rm_path_quiet(g, file, path, force, recursive) ==
    IF PathIsDir(g.w, path) /\ recursive
    THEN gui_rm_report(g, file, force, RemoveDirAll(g.w, path))
    ELSE IF PathIsFile(g.w, path)
    THEN gui_rm_report(g, file, force, Unlink(g.w, path))
    ELSE IF PathIsDir(g.w, path)
    THEN Gui(g.w, g.dir, Append(g.out, Msg("rm", file, "Is a directory (use -r)")))
    ELSE g

gui_rm_path(g, file, path, force, recursive) ==
    IF ~PathExists(g.w, path) /\ ~force
    THEN Gui(g.w, g.dir, Append(g.out, Msg("rm", file, "No such file or directory")))
    ELSE IF PathIsDir(g.w, path) /\ recursive
    THEN gui_rm_report(g, file, force, RemoveDirAll(g.w, path))
    ELSE IF PathIsFile(g.w, path)
    THEN gui_rm_report(g, file, force, Unlink(g.w, path))
    ELSE IF PathIsDir(g.w, path)
    THEN Gui(g.w, g.dir, Append(g.out, Msg("rm", file, "Is a directory (use -r)")))
    ELSE g

gui_rm_one(g, file, force, recursive) ==
    gui_rm_path(g, file, GuiPath(g.dir, file), force, recursive)

RECURSIVE gui_rm_loop(_, _, _, _)
gui_rm_loop(g, files, force, recursive) ==
    IF files = <<>> THEN g
    ELSE gui_rm_loop(gui_rm_one(g, Head(files), force, recursive), Tail(files),
                     force, recursive)

\* TerminalApp::remove_file
remove_file(g, args) ==
    IF args = <<>> THEN Gui(g.w, g.dir, Append(g.out, Msg("rm: missing operand", <<>>, "")))
    ELSE LET o == GuiParseRm(args, RmStart)
         IN  gui_rm_loop(g, o.files, o.force, o.recursive)

\* TerminalApp::execute_external_command: the child is started in
\* current_dir, which fails when that is no directory
gui_execute_external_command(g, cmd, ext) ==
    IF ext.kind = "notfound" \/ ~PathIsDir(g.w, g.dir)
    THEN Gui(g.w, g.dir, Append(g.out, Msg("", cmd, "command not found")))
    ELSE Gui(g.w, g.dir, g.out \o [i \in 1..ext.nout |-> Msg("", <<>>, "stdout")]
                               \o [i \in 1..ext.nerr |-> Msg("[ERROR]", <<>>, "stderr")])

\* TerminalApp::show_help
show_help(g) ==
    Gui(g.w, g.dir, g.out \o [i \in 1..HelpLines |-> Msg("help", <<>>, ToString(i))])

Banner == <<Msg("=== Taminal GUI Terminal ===", <<>>, ""),
            Msg("Type 'help' for available commands", <<>>, ""),
            Msg("", <<>>, "")>>
Cleared == Msg("=== Terminal Cleared ===", <<>>, "")

\* the loop that ends execute_command: pop_front while more than MaxOutput
\* lines are held, which leaves the last MaxOutput lines
TrimOutput(out) ==
    IF Len(out) > MaxOutput THEN SubSeq(out, Len(out) - MaxOutput + 1, Len(out)) ELSE out

\* a dispatch whose clear keeps the prompt line of the clear command
gui_dispatch_clear_keeps_echo(g, cmd, args, ext) ==
    IF cmd \in {S_exit, S_quit}
    THEN Gui(g.w, g.dir, Append(g.out, Msg("Use the window close button to exit", <<>>, "")))
    ELSE IF cmd = S_clear THEN Gui(g.w, g.dir, <<g.out[Len(g.out)], Cleared>>)
    ELSE IF cmd = S_cd THEN gui_change_directory(g, args)
    ELSE IF cmd = S_pwd THEN Gui(g.w, g.dir, Append(g.out, Msg("", g.dir, "")))
    ELSE IF cmd = S_ls THEN gui_list_directory(g, args)
    ELSE IF cmd = S_mkdir THEN make_directory(g, args)
    ELSE IF cmd = S_rmdir THEN remove_directory(g, args)
    ELSE IF cmd = S_rm THEN remove_file(g, args)
    ELSE IF cmd = S_help THEN show_help(g)
    ELSE gui_execute_external_command(g, cmd, ext)

\* execute_command from the match on cmd to its end
gui_dispatch(g, cmd, args, ext) ==
    IF cmd \in {S_exit, S_quit}
    THEN Gui(g.w, g.dir, Append(g.out, Msg("Use the window close button to exit", <<>>, "")))
    ELSE IF cmd = S_clear THEN Gui(g.w, g.dir, <<Cleared>>)
    ELSE IF cmd = S_cd THEN gui_change_directory(g, args)
    ELSE IF cmd = S_pwd THEN Gui(g.w, g.dir, Append(g.out, Msg("", g.dir, "")))
    ELSE IF cmd = S_ls THEN gui_list_directory(g, args)
    ELSE IF cmd = S_mkdir THEN make_directory(g, args)
    ELSE IF cmd = S_rmdir THEN remove_directory(g, args)
    ELSE IF cmd = S_rm THEN remove_file(g, args)
    ELSE IF cmd = S_help THEN show_help(g)
    ELSE gui_execute_external_command(g, cmd, ext)

\* the fields after execute_command: [w, dir, out, hist, idx]
App(g, out, hist, idx) == [w |-> g.w, dir |-> g.dir, out |-> out, hist |-> hist, idx |-> idx]

gui_trimmed(d, hist, idx) == App(d, TrimOutput(d.out), hist, idx)

\* execute_command after the prompt line is pushed
gui_split(g, parts, ext, hist, idx) ==
    IF parts = <<>> THEN App(g, g.out, hist, idx)
    ELSE gui_trimmed(gui_dispatch(g, parts[1], Tail(parts), ext), hist, idx)

gui_echo(a, command, ext, hist) ==
    gui_split(Gui(a.w, a.dir, Append(a.out,
                  Msg("prompt", get_dir_name(a.dir) \o <<">", SP>> \o command, ""))),
              SplitWhitespace(Trim(command)), ext,
              hist, IF command # <<>> THEN Len(hist) ELSE a.idx)

\* execute_command leaving history_index as it was
execute_command_stale_index(a, command, ext) ==
    [gui_echo(a, command, ext, IF command # <<>> THEN Append(a.hist, command) ELSE a.hist)
        EXCEPT !.idx = a.idx]

\* TerminalApp::execute_command on the fields a = [w, dir, out, hist, idx]
execute_command(a, command, ext) ==
    gui_echo(a, command, ext, IF command # <<>> THEN Append(a.hist, command) ELSE a.hist)

----------------------------------------------------------------------------
(* The names, the command lines and the initial file systems of the runs.  *)

N_src == <<"s", "r", "c">>
N_srv == <<"s", "r", "v", ".", "t", "x", "t">>
N_lib == <<"l", "i", "b">>
N_nox == <<"n", "o", "x">>
N_sr == <<"s", "r">>
O_f == <<"-", "f">>
O_r == <<"-", "r">>
O_rf == <<"-", "r", "f">>
O_x == <<"-", "x">>
O_fx == <<"-", "f", "x">>

RECURSIVE Words(_)
\* the words of a line, one space between them
Words(ws) ==
    IF ws = <<>> THEN <<>>
    ELSE IF Len(ws) = 1 THEN ws[1]
    ELSE ws[1] \o <<SP>> \o Words(Tail(ws))

\* the sequences of one or two elements of S
UpTo2(S) == {<<x>> : x \in S} \cup {<<x, y>> : x \in S, y \in S}

\* a file system with /src, /srv.txt and /src/lib present or not
MkFs(src, srv, lib) ==
    LET D == {<<>>} \cup (IF src THEN {<<N_src>>} ELSE {})
                    \cup (IF srv THEN {<<N_srv>>} ELSE {})
                    \cup (IF lib # "none" THEN {<<N_src, N_lib>>} ELSE {})
    IN  [q \in D |-> IF q = <<N_srv>> THEN "file"
                     ELSE IF q = <<N_src, N_lib>> THEN lib ELSE "dir"]

InitFss == {MkFs(src, srv, lib) : src \in BOOLEAN, srv \in BOOLEAN,
                                  lib \in {"none", "dir", "file"}}
InitFsOk(f) == <<N_src, N_lib>> \in DOMAIN f => <<N_src>> \in DOMAIN f

RmTargets == {N_src, N_srv, N_nox, N_lib}

\* the lines typed at the CLI in a run of Spec
CliCdLines ==
    {Words(<<S_cd>>), Words(<<S_cd, N_src>>), Words(<<S_cd, DOTDOT>>),
     Words(<<S_cd, N_srv>>), Words(<<S_cd, N_nox>>),
     Words(<<S_cd, N_sr \o <<TAB>>>>), Words(<<S_cd, <<".", "/">> \o N_sr \o <<TAB>>>>),
     Words(<<S_cd, N_src \o <<SLASH, TAB>>>>), Words(<<S_cd, N_nox \o <<TAB>>>>),
     Words(<<S_cd, N_src \o <<TAB>>>>)}
CliRmLines ==
    {Words(<<S_rm>> \o o \o t) : o \in {<<>>, <<O_f>>, <<O_r>>, <<O_rf>>}, t \in UpTo2(RmTargets)}
    \cup {Words(<<S_rm>>), Words(<<S_rm, O_f>>),
          Words(<<S_rm, O_x, N_srv>>), Words(<<S_rm, N_srv, O_x>>),
          Words(<<S_rm, N_srv, O_fx, N_lib>>), Words(<<S_rm, O_r, N_src, O_x>>),
          Words(<<S_rm, O_r, <<SLASH>> \o N_src>>)}
CliDirLines ==
    {Words(<<c>> \o t) : c \in {S_mkdir, S_rmdir}, t \in UpTo2({N_src, N_lib, N_srv})}
    \cup {Words(<<S_mkdir>>), Words(<<S_rmdir>>), Words(<<S_rmdir, <<SLASH>> \o N_src>>),
          Words(<<S_rmdir, N_nox, N_lib>>)}
CliOtherLines ==
    {<<>>, <<SP, TAB>>, Words(<<S_pwd>>), Words(<<S_ls>>), Words(<<S_ls, N_nox>>),
     Words(<<S_help>>), Words(<<S_clear>>), Words(<<S_exit>>), Words(<<S_quit>>),
     Words(<<N_nox, N_src>>)}
CliLines == CliCdLines \cup CliRmLines \cup CliDirLines \cup CliOtherLines

\* the lines submitted to the GUI in a run of Spec
GuiLines ==
    {Words(<<S_cd, N_src>>), Words(<<S_cd, DOTDOT>>), Words(<<S_cd, N_srv>>),
     Words(<<S_rm, O_rf, <<SLASH>> \o N_src>>), Words(<<S_rmdir, DOTDOT \o <<SLASH>> \o N_src>>),
     Words(<<S_rm, O_f, N_nox>>), Words(<<S_rm, N_nox>>), Words(<<S_rm, N_nox, N_srv>>),
     Words(<<S_rm, N_lib, O_x>>),
     Words(<<S_mkdir, N_src, N_lib>>), Words(<<S_rmdir, N_nox, N_lib>>)}

\* the lines submitted to the GUI in a run of SpecCmds: every built-in, an
\* external command and a line of blanks
CmdLines ==
    {Words(<<S_cd>>), Words(<<S_cd, N_src>>), Words(<<S_cd, N_srv>>),
     Words(<<S_pwd>>), Words(<<S_ls>>), Words(<<S_mkdir, N_lib>>), Words(<<S_rmdir, N_lib>>),
     Words(<<S_rm, N_src>>), Words(<<S_rm, O_f, N_src>>),
     Words(<<S_clear>>), Words(<<S_help>>), Words(<<S_exit>>), Words(<<N_nox, N_src>>),
     <<SP, SP>>}

\* the lines typed into the GUI in a run of SpecHist
HistLines == {Words(<<S_pwd>>), Words(<<S_help>>), Words(<<S_clear>>), <<SP, SP>>}

\* the lines submitted to the GUI in a run of SpecOut: an external command,
\* a line of blanks, two built-ins
OutLines == {Words(<<N_nox, N_src>>), <<SP, SP>>, Words(<<S_pwd>>), Words(<<S_exit>>)}

----------------------------------------------------------------------------
(* The state machine.                                                      *)

World == [fs |-> fs, p |-> cwd, dead |-> cwd_dead]

InitCommon ==
    /\ fs \in {f \in InitFss : InitFsOk(f)}
    /\ cwd \in {q \in DOMAIN fs : fs[q] = "dir"}
    /\ cwd_dead = 0
    /\ pc = "top"
    /\ line = [some |-> FALSE, s |-> <<>>]
    /\ cli_out = <<>>
    /\ input = <<>>
    /\ output = Banner
    /\ current_dir = PathStr(cwd)
    /\ command_history = <<>>
    /\ history_index = 0
    /\ ev = [h |-> "Init", cmd |-> <<>>]

Init == mode \in {"cli", "gui"} /\ InitCommon

\* main.rs: the top of the loop: print_prompt, then read_input returns a line
CliRead(L) ==
    /\ mode = "cli"
    /\ pc = "top"
    /\ \E raw \in L :
         /\ line' = [some |-> TRUE, s |-> read_input(raw)]
         /\ ev' = [h |-> "Read", cmd |-> raw]
    /\ cli_out' = <<print_prompt(World)>>
    /\ pc' = "match"
    /\ UNCHANGED <<mode, fs, cwd, cwd_dead, guiVars>>

\* main.rs: read_input meets the end of the input (Ok(0)) and main leaves
CliEof ==
    /\ mode = "cli"
    /\ pc = "top"
    /\ line' = [some |-> FALSE, s |-> <<>>]
    /\ cli_out' = <<print_prompt(World), Msg("goodbye", <<>>, "")>>
    /\ ev' = [h |-> "Eof", cmd |-> <<>>]
    /\ pc' = "exit"
    /\ UNCHANGED <<mode, fs, cwd, cwd_dead, guiVars>>

\* main.rs: read_line fails; read_input reports it and returns None
CliReadError ==
    /\ mode = "cli"
    /\ pc = "top"
    /\ line' = [some |-> FALSE, s |-> <<>>]
    /\ cli_out' = <<print_prompt(World), Msg("Error reading input:", <<>>, "EIO"),
                    Msg("goodbye", <<>>, "")>>
    /\ ev' = [h |-> "ReadError", cmd |-> <<>>]
    /\ pc' = "exit"
    /\ UNCHANGED <<mode, fs, cwd, cwd_dead, guiVars>>

\* the file system f has more entries than the present one
Grows(f) == Cardinality(DOMAIN f) > Cardinality(DOMAIN fs)

\* the world and the terminal become those of the iteration's result r
CliBecomes(r) ==
    /\ Grows(r.w.fs) => Cardinality(DOMAIN r.w.fs) - 1 <= MaxNodes
    /\ fs' = r.w.fs
    /\ cwd' = r.w.p
    /\ cwd_dead' = r.w.dead
    /\ cli_out' = cli_out \o r.out
    /\ pc' = IF r.running THEN "end" ELSE "exit"

\* main.rs: the line read is tested, split and dispatched
CliDispatch(big) ==
    /\ mode = "cli"
    /\ pc = "match"
    /\ \E ext \in (IF IsExternal(line.s) THEN ExtOutcomes(big) ELSE {NoExt}) :
          CliBecomes(main_dispatch(World, line.s, ext))
    /\ ev' = [ev EXCEPT !.h = "Dispatch"]
    /\ UNCHANGED <<mode, line, guiVars>>

\* main.rs: the loop goes round
CliLoop ==
    /\ mode = "cli"
    /\ pc = "end"
    /\ pc' = "top"
    /\ line' = [some |-> FALSE, s |-> <<>>]
    /\ cli_out' = <<>>
    /\ ev' = [h |-> "Loop", cmd |-> <<>>]
    /\ UNCHANGED <<mode, fs, cwd, cwd_dead, guiVars>>

\* the fields of the application and the file system become those of r
GuiBecomes(r) ==
    /\ Grows(r.w.fs) => Cardinality(DOMAIN r.w.fs) - 1 <= MaxNodes
    /\ fs' = r.w.fs
    /\ output' = r.out
    /\ current_dir' = r.dir
    /\ command_history' = r.hist
    /\ history_index' = r.idx

\* gui.rs update(): the command in the input field is taken and executed
\* (Enter, or a click on Execute: h names which)
Execute(h, command, maxc, big) ==
    /\ input' = <<>>
    /\ ev' = [h |-> h, cmd |-> command]
    /\ IF command # <<>>
       THEN /\ Len(command_history) < maxc
            /\ \E ext \in (IF IsExternal(command) THEN ExtOutcomes(big) ELSE {NoExt}) :
                  GuiBecomes(execute_command(
                      [w |-> World, dir |-> current_dir, out |-> output,
                       hist |-> command_history, idx |-> history_index], command, ext))
       ELSE UNCHANGED <<fs, output, current_dir, command_history, history_index>>
    /\ UNCHANGED <<mode, cwd, cwd_dead, cliVars>>

\* a line is typed into the input field and Enter is pressed
GuiSubmit(L, maxc, big) ==
    mode = "gui" /\ \E l \in L : Execute("Enter", l, maxc, big)

\* Enter is pressed on the input field as it is
GuiEnter(maxc, big) == mode = "gui" /\ Execute("Enter", input, maxc, big)

\* the Execute button is clicked
GuiButton(maxc, big) == mode = "gui" /\ Execute("Button", input, maxc, big)

\* a line is typed into the input field
GuiType(L) ==
    /\ mode = "gui"
    /\ \E l \in L : input' = l
    /\ ev' = [h |-> "Type", cmd |-> <<>>]
    /\ UNCHANGED <<mode, fs, cwd, cwd_dead, cliVars, output, current_dir,
                   command_history, history_index>>

\* gui.rs update(): ArrowUp
GuiUp ==
    /\ mode = "gui"
    /\ IF history_index > 0
       THEN /\ history_index' = history_index - 1
            /\ input' = command_history[history_index - 1 + 1]
       ELSE UNCHANGED <<history_index, input>>
    /\ ev' = [h |-> "Up", cmd |-> <<>>]
    /\ UNCHANGED <<mode, fs, cwd, cwd_dead, cliVars, output, current_dir, command_history>>

\* ArrowDown that leaves the input field alone at the end of the history
GuiDownKeepsInput ==
    /\ mode = "gui"
    /\ IF history_index < Len(command_history)
       THEN /\ history_index' = history_index + 1
            /\ input' = IF history_index + 1 = Len(command_history) THEN input
                        ELSE command_history[history_index + 1 + 1]
       ELSE UNCHANGED <<history_index, input>>
    /\ ev' = [h |-> "Down", cmd |-> <<>>]
    /\ UNCHANGED <<mode, fs, cwd, cwd_dead, cliVars, output, current_dir, command_history>>

\* gui.rs update(): ArrowDown
GuiDown ==
    /\ mode = "gui"
    /\ IF history_index < Len(command_history)
       THEN /\ history_index' = history_index + 1
            /\ input' = IF history_index + 1 = Len(command_history) THEN <<>>
                        ELSE command_history[history_index + 1 + 1]
       ELSE UNCHANGED <<history_index, input>>
    /\ ev' = [h |-> "Down", cmd |-> <<>>]
    /\ UNCHANGED <<mode, fs, cwd, cwd_dead, cliVars, output, current_dir, command_history>>

\* gui.rs update(): Ctrl+L
GuiCtrlL ==
    /\ mode = "gui"
    /\ output' = <<Cleared>>
    /\ ev' = [h |-> "CtrlL", cmd |-> <<>>]
    /\ UNCHANGED <<mode, fs, cwd, cwd_dead, cliVars, input, current_dir,
                   command_history, history_index>>

Next ==
    \/ CliRead(CliLines)
    \/ CliEof
    \/ CliReadError
    \/ CliDispatch(2)
    \/ CliLoop
    \/ GuiSubmit(GuiLines, MaxCmds, 2)
    \/ GuiEnter(MaxCmds, 2)
    \/ GuiButton(MaxCmds, 2)
    \/ GuiUp
    \/ GuiDown
    \/ GuiCtrlL

Spec == Init /\ [][Next]_vars

\* both front ends again, the GUI given every kind of command line, started
\* on the file systems that hold /src, with and without /srv.txt
InitCmds ==
    /\ Init
    /\ fs \in {MkFs(TRUE, FALSE, "none"), MkFs(TRUE, TRUE, "none")}

NextCmds ==
    \/ CliRead(CliLines)
    \/ CliEof
    \/ CliReadError
    \/ CliDispatch(2)
    \/ CliLoop
    \/ GuiSubmit(CmdLines, MaxCmds, 2)
    \/ GuiEnter(MaxCmds, 2)
    \/ GuiButton(MaxCmds, 2)
    \/ GuiUp
    \/ GuiDown
    \/ GuiCtrlL

SpecCmds == InitCmds /\ [][NextCmds]_vars

\* a run of the GUI alone, started in the root of one file system
InitGui ==
    /\ mode = "gui"
    /\ InitCommon
    /\ fs = MkFs(TRUE, TRUE, "none")
    /\ cwd = <<>>

\* history navigation: lines are typed, executed and recalled
NextHist ==
    \/ GuiType(HistLines)
    \/ GuiEnter(MaxHist, 2)
    \/ GuiButton(MaxHist, 2)
    \/ GuiUp
    \/ GuiDown
    \/ GuiCtrlL

SpecHist == InitGui /\ [][NextHist]_vars

\* the output buffer: external commands that write up to MaxOutput lines
NextOut ==
    \/ GuiSubmit(OutLines, MaxCmds, MaxOutput)
    \/ GuiEnter(MaxCmds, MaxOutput)
    \/ GuiButton(MaxCmds, MaxOutput)
    \/ GuiUp
    \/ GuiDown
    \/ GuiCtrlL

SpecOut == InitGui /\ [][NextOut]_vars

----------------------------------------------------------------------------
(* The claims.                                                             *)

\* the last handler was execute_command (Enter or the Execute button on a
\* non-empty input field)
Executed(e) == e.h \in {"Enter", "Button"} /\ e.cmd # <<>>

\* C1: in the GUI, whenever execute_command has returned, the output buffer
\* holds at most MaxOutput (1000) lines.
C1_OutputBounded ==
    (mode = "gui" /\ Executed(ev)) => Len(output) <= MaxOutput

\* C2: in the GUI, 0 <= history_index <= len(command_history) in every
\* state, and history_index = len(command_history) right after every
\* executed command.
C2_HistoryIndexInRange ==
    mode = "gui" =>
        /\ 0 <= history_index
        /\ history_index <= Len(command_history)
        /\ Executed(ev) => history_index = Len(command_history)

\* C2's case: Up has been pressed until the index reached 0, with entries
\* in the history
C2_Witness ==
    /\ mode = "gui"
    /\ ev.h = "Up"
    /\ history_index = 0
    /\ Len(command_history) >= 2

\* C3: with at least three commands A, B, C executed (C last), the first Up
\* after an execution sets the input field to C, the next Up sets it to B,
\* and Down at the most recent entry empties the input field.
C3_HistoryNavigation ==
    [][(mode = "gui" /\ Len(command_history) >= 3) =>
         LET n == Len(command_history)
         IN  /\ (Executed(ev) /\ ev'.h = "Up") => input' = command_history[n]
             /\ (ev.h = "Up" /\ history_index = n - 1 /\ ev'.h = "Up")
                   => input' = command_history[n - 1]
             /\ (history_index = n - 1 /\ ev'.h = "Down") => input' = <<>>]_vars

\* C3's case: three commands executed, Up pressed twice: the input field
\* holds the second of them
C3_Witness ==
    /\ mode = "gui"
    /\ Len(command_history) = 3
    /\ ev.h = "Up"
    /\ history_index = 1
    /\ input = command_history[2]
    /\ command_history[2] # command_history[3]

----------------------------------------------------------------------------
(* What the claims about single commands speak of.                         *)

\* the step is main's dispatch of the line it has read
CliDispatched == mode = "cli" /\ pc = "match" /\ pc' = "end"
\* the words of the line main is about to dispatch
CliParts == SplitWhitespace(line.s)

\* the step is execute_command
GuiExecuted == mode = "gui" /\ Executed(ev')
\* the words of the command execute_command is given in the step
GuiParts == SplitWhitespace(Trim(ev'.cmd))
\* the prompt line execute_command pushes first
GuiEchoLine == Msg("prompt", get_dir_name(current_dir) \o <<">", SP>> \o ev'.cmd, "")

\* the words that are options, and those that are targets, of an rm
IsOption(a) == a # <<>> /\ a[1] = "-"
Options(args) == SelectSeq(args, IsOption)
IsTarget(a) == ~IsOption(a)
Targets(args) == SelectSeq(args, IsTarget)
\* an option word holds a character that is not f, r or R
BadOption(a) == \E j \in 2..Len(a) : a[j] \notin {"f", "r", "R"}
HasBadOption(args) == \E i \in 1..Len(args) : IsOption(args[i]) /\ BadOption(args[i])
\* some option word holds the character c
HasFlag(args, c) ==
    \E i \in 1..Len(args) : IsOption(args[i]) /\ \E j \in 2..Len(args[i]) : args[i][j] = c

\* parts is an rm with targets and only valid options
IsRm(parts) ==
    /\ parts # <<>>
    /\ parts[1] = S_rm
    /\ Targets(Tail(parts)) # <<>>
    /\ ~HasBadOption(Tail(parts))

\* the line is `cd P<TAB>`
IsCdTab(raw) ==
    LET ws == SplitOn(raw, {SP}, <<>>, <<>>)
    IN  Len(ws) = 2 /\ ws[1] = S_cd /\ EndsWithChar(ws[2], TAB)
\* the P of the line `cd P<TAB>`
CdTabPartial(raw) == TrimEndMatches(SplitOn(raw, {SP}, <<>>, <<>>)[2], TAB)
\* the lines that list the candidates c
Listing(c) ==
    <<Msg("Possible completions:", <<>>, "")>> \o [i \in 1..Len(c) |-> Msg("  ", c[i], "")]
\* what the step does is what the candidates c call for
CdTabOutcome(c) ==
    IF Len(c) = 1
    THEN /\ cwd' = Chdir(World, c[1]).w.p
         /\ \A i \in 1..Len(cli_out') : cli_out'[i].k # "Possible completions:"
    ELSE IF Len(c) > 1
    THEN cwd' = cwd /\ cli_out' = cli_out \o Listing(c)
    ELSE cwd' = cwd /\ cli_out' = cli_out

\* C4: at the CLI, for the line `cd P<TAB>`, completion of P decides: one
\* candidate, the working directory becomes that candidate and nothing is
\* listed; more than one, the candidates are listed and the working
\* directory stays; none, nothing is written and the working directory stays.
C4_TabCompletes ==
    [][(CliDispatched /\ IsCdTab(ev.cmd)) =>
          CdTabOutcome(get_path_completions(World, CdTabPartial(ev.cmd)))]_vars

\* C5: in the GUI, current_dir names an existing directory in every state
\* a command can start in.
C5_CurrentDirExists == mode = "gui" => PathIsDir(World, current_dir)

\* the GUI's `cd` with the words p, when its target is a regular file
GuiCdToFile(p) ==
    (Len(p) >= 2 /\ p[1] = S_cd /\ PathIsFile(World, GuiPath(current_dir, p[2])))
    => /\ current_dir' = current_dir
       /\ output'[Len(output')] = Msg("cd", p[2], "No such directory")
       /\ fs' = fs
\* the CLI's `cd` with the words p, when its target is a regular file
CliCdToFile(p) ==
    (Len(p) >= 2 /\ p[1] = S_cd /\ PathIsFile(World, p[2]))
    => /\ cwd' = cwd /\ cwd_dead' = cwd_dead
       /\ cli_out' = Append(cli_out, Msg("cd", p[2], "ENOTDIR"))
       /\ fs' = fs

\* C6: `cd` to a path that is a regular file reports an error and leaves
\* the current directory as it was: current_dir in the GUI, the process's
\* working directory at the CLI.
C6_CdToFileFails ==
    [][/\ GuiExecuted => GuiCdToFile(GuiParts)
       /\ CliDispatched => CliCdToFile(CliParts)]_vars

\* C6's case: the GUI has executed `cd srv.txt` where srv.txt is a file of
\* current_dir, and has reported it
C6_Witness ==
    /\ mode = "gui"
    /\ Executed(ev)
    /\ ev.cmd = Words(<<S_cd, N_srv>>)
    /\ PathIsFile(World, GuiPath(current_dir, N_srv))
    /\ output[Len(output)] = Msg("cd", N_srv, "No such directory")

\* the CLI's rm with the words p, when an option word of it is invalid
CliRmInvalid(p) ==
    (p # <<>> /\ p[1] = S_rm /\ HasBadOption(Tail(p)))
    => /\ fs' = fs
       /\ \E i \in 1..Len(line.s) :
             /\ line.s[i] \notin {"f", "r", "R"}
             /\ cli_out' = Append(cli_out, Msg("rm: invalid option --", <<line.s[i]>>, ""))

\* C7: at the CLI, an rm with an option word that holds a character other
\* than f, r or R writes the invalid-option report and removes nothing,
\* wherever the option stands on the line.
C7_RmInvalidOptionAborts == [][CliDispatched => CliRmInvalid(CliParts)]_vars

\* C7's case: `rm srv.txt -x` has been dispatched where srv.txt is a file:
\* the report is written and the file is still there
C7_Witness ==
    /\ mode = "cli"
    /\ pc = "end"
    /\ ev.cmd = Words(<<S_rm, N_srv, O_x>>)
    /\ PathIsFile(World, N_srv)
    /\ cli_out[Len(cli_out)] = Msg("rm: invalid option --", <<"x">>, "")

\* none of the targets ts exists, seen from the CLI and from the GUI
CliAllMissing(ts) == \A i \in 1..Len(ts) : ~PathExists(World, ts[i])
GuiAllMissing(ts) == \A i \in 1..Len(ts) : ~PathExists(World, GuiPath(current_dir, ts[i]))

\* an rm with the words p and -f, when none of its targets exists
CliRmForce(p) ==
    (IsRm(p) /\ HasFlag(Tail(p), "f") /\ CliAllMissing(Targets(Tail(p))))
    => fs' = fs /\ cli_out' = cli_out
GuiRmForce(p) ==
    (IsRm(p) /\ HasFlag(Tail(p), "f") /\ GuiAllMissing(Targets(Tail(p))))
    => fs' = fs /\ output' = TrimOutput(Append(output, GuiEchoLine))

\* C8: an rm with -f whose targets do not exist writes nothing (beyond the
\* GUI's echo of the command) and leaves the file system as it was, in both
\* front ends.
C8_RmForceMissingQuiet ==
    [][/\ CliDispatched => CliRmForce(CliParts)
       /\ GuiExecuted => GuiRmForce(GuiParts)]_vars

\* C8's case: the CLI has dispatched `rm -f nox` where nox does not exist,
\* and only the prompt has been written
C8_Witness ==
    /\ mode = "cli"
    /\ pc = "end"
    /\ ev.cmd = Words(<<S_rm, O_f, N_nox>>)
    /\ ~PathExists(World, N_nox)
    /\ Len(cli_out) = 1

\* the report of each target t of ts as missing: k t: No such file or directory
Missing(k, ts) == [i \in 1..Len(ts) |-> Msg(k, ts[i], "No such file or directory")]

\* an rm with the words p and without -f, when none of its targets exists
CliRmMissing(p) ==
    (IsRm(p) /\ ~HasFlag(Tail(p), "f") /\ CliAllMissing(Targets(Tail(p))))
    => /\ fs' = fs
       /\ cli_out' = cli_out \o Missing("rm: cannot remove", Targets(Tail(p)))
GuiRmMissing(p) ==
    (IsRm(p) /\ ~HasFlag(Tail(p), "f") /\ GuiAllMissing(Targets(Tail(p))))
    => /\ fs' = fs
       /\ output' = TrimOutput(Append(output, GuiEchoLine) \o Missing("rm", Targets(Tail(p))))

\* C9: an rm without -f whose targets do not exist reports "No such file or
\* directory" for each of them and leaves the file system as it was, in
\* both front ends.
C9_RmMissingReported ==
    [][/\ CliDispatched => CliRmMissing(CliParts)
       /\ GuiExecuted => GuiRmMissing(GuiParts)]_vars

\* C9's case: the GUI has executed `rm nox` where nox does not exist, and
\* has reported it
C9_Witness ==
    /\ mode = "gui"
    /\ Executed(ev)
    /\ ev.cmd = Words(<<S_rm, N_nox>>)
    /\ ~PathExists(World, GuiPath(current_dir, N_nox))
    /\ output[Len(output)] = Msg("rm", N_nox, "No such file or directory")

\* the targets of a multi-target built-in, given one by one, each alone on
\* a line after the words pre (the command and its options)
CliAlone(r, out) == [w |-> r.w, out |-> out \o r.out]
RECURSIVE CliOneByOne(_, _, _)
CliOneByOne(st, pre, ts) ==
    IF ts = <<>> THEN st
    ELSE CliOneByOne(CliAlone(main_dispatch(st.w, Words(Append(pre, Head(ts))), NoExt), st.out),
                     pre, Tail(ts))
RECURSIVE GuiOneByOne(_, _, _)
GuiOneByOne(g, pre, ts) ==
    IF ts = <<>> THEN g
    ELSE GuiOneByOne(gui_dispatch(g, pre[1], Append(Tail(pre), Head(ts)), NoExt), pre, Tail(ts))

\* parts is an rm, mkdir or rmdir of two targets or more (an rm with valid
\* options only)
IsMulti(parts) ==
    /\ parts # <<>>
    /\ \/ IsRm(parts) /\ Len(Targets(Tail(parts))) >= 2
       \/ parts[1] \in {S_mkdir, S_rmdir} /\ Len(parts) >= 3
\* the command with its options, and the targets
PreOf(parts) == IF parts[1] = S_rm THEN <<S_rm>> \o Options(Tail(parts)) ELSE <<parts[1]>>
TargetsOf(parts) == IF parts[1] = S_rm THEN Targets(Tail(parts)) ELSE Tail(parts)

\* the step leaves what r, or g, holds
CliSameAs(r) == fs' = r.w.fs /\ cli_out' = r.out
GuiSameAs(g) == fs' = g.w.fs /\ output' = TrimOutput(g.out) /\ current_dir' = g.dir

\* a multi-target built-in with the words p does what its targets do alone
CliEachAlone(p) ==
    IsMulti(p) => CliSameAs(CliOneByOne([w |-> World, out |-> cli_out], PreOf(p), TargetsOf(p)))
GuiEachAlone(p) ==
    IsMulti(p) => GuiSameAs(GuiOneByOne(Gui(World, current_dir, Append(output, GuiEchoLine)),
                                        PreOf(p), TargetsOf(p)))

\* C10: an rm, mkdir or rmdir of several targets leaves the file system and
\* writes the reports that its targets leave and write when each is given
\* alone, in the order of the line: a target that fails stops nothing.
C10_EachTargetAsAlone ==
    [][/\ CliDispatched => CliEachAlone(CliParts)
       /\ GuiExecuted => GuiEachAlone(GuiParts)]_vars

\* C10's case: the CLI has dispatched `rmdir nox lib`: nox is reported
\* missing, and lib, the one target after it, has been removed
C10_Witness ==
    /\ mode = "cli"
    /\ pc = "end"
    /\ ev.cmd = Words(<<S_rmdir, N_nox, N_lib>>)
    /\ Len(cli_out) = 2
    /\ cli_out[2] = Msg("rmdir: failed to remove", N_nox, "No such file or directory")
    /\ ~PathExists(World, N_lib)
    /\ cwd = <<N_src>>

\* the world after the step
WorldAfter == [fs |-> fs', p |-> cwd', dead |-> cwd_dead']

\* the target t exists before the step and not after it, seen from the CLI
\* and from the GUI
CliRemoved(t) == PathExists(World, t) /\ ~PathExists(WorldAfter, t)
GuiRemoved(t) ==
    /\ PathExists(World, GuiPath(current_dir, t))
    /\ ~PathExists(WorldAfter, GuiPath(current_dir, t))

\* an rm with the words p, of one target, that removes it
CliRmQuiet(p) ==
    (IsRm(p) /\ Len(Targets(Tail(p))) = 1 /\ CliRemoved(Targets(Tail(p))[1]))
    => cli_out' = cli_out
GuiRmQuiet(p) ==
    (IsRm(p) /\ Len(Targets(Tail(p))) = 1 /\ GuiRemoved(Targets(Tail(p))[1]))
    => output' = TrimOutput(Append(output, GuiEchoLine))

\* C11: an rm that removes its target writes nothing for it: the CLI writes
\* no line, the GUI pushes its echo of the command and no more.
C11_RmQuietSuccess ==
    [][/\ CliDispatched => CliRmQuiet(CliParts)
       /\ GuiExecuted => GuiRmQuiet(GuiParts)]_vars

\* a `mkdir x` of the CLI with the words p: when it reports nothing, x is a
\* directory after it; when x is a directory before it, "File exists" is
\* reported and the file system is left as it was
CliMkdirAgain(p) ==
    (Len(p) = 2 /\ p[1] = S_mkdir)
    => /\ cli_out' = cli_out => PathIsDir(WorldAfter, p[2])
       /\ PathIsDir(World, p[2])
          => /\ fs' = fs
             /\ cli_out' = Append(cli_out, Msg("mkdir: cannot create directory", p[2],
                                               "File exists"))
\* the same of the GUI, whose report of the second call is that of the
\* system call: mkdir: x: File exists (os error 17)
GuiMkdirAgain(p) ==
    (Len(p) = 2 /\ p[1] = S_mkdir)
    => /\ output'[Len(output')] = Msg("Created directory:", p[2], "")
          => PathIsDir(WorldAfter, GuiPath(current_dir, p[2]))
       /\ PathIsDir(World, GuiPath(current_dir, p[2]))
          => /\ fs' = fs
             /\ output' = TrimOutput(Append(output, GuiEchoLine)
                                       \o <<Msg("mkdir", p[2], "EEXIST")>>)

\* C12: `mkdir x` makes x a directory whenever it reports no failure, and
\* `mkdir x` on a directory x (so also right after that first call)
\* reports "File exists" and leaves the directory and the rest of the file
\* system unchanged, in both front ends.
C12_MkdirTwice ==
    [][/\ CliDispatched => CliMkdirAgain(CliParts)
       /\ GuiExecuted => GuiMkdirAgain(GuiParts)]_vars

\* C12's case: the GUI has executed `mkdir lib` twice in a row: the first
\* created the directory, the second reported that it exists, and it is
\* still there
C12_Witness ==
    /\ mode = "gui"
    /\ Executed(ev)
    /\ Len(command_history) = 2
    /\ command_history[1] = Words(<<S_mkdir, N_lib>>)
    /\ command_history[2] = Words(<<S_mkdir, N_lib>>)
    /\ Len(output) >= 4
    /\ output[Len(output) - 2] = Msg("Created directory:", N_lib, "")
    /\ output[Len(output)] = Msg("mkdir", N_lib, "EEXIST")
    /\ PathIsDir(World, GuiPath(current_dir, N_lib))

\* C13: the CLI's loop ends only on `exit`, `quit` or the end of the input:
\* whenever main has left the loop, the last thing it did was to dispatch
\* one of the two commands or to meet the end of the input; after a
\* reported error, one of reading the input included, it is still in the
\* loop.
C13_LoopEndsOnlyOnExit ==
    (mode = "cli" /\ pc = "exit")
    => \/ ev.h = "Eof"
       \/ ev.h = "Dispatch" /\ CommandOf(ev.cmd) \in {S_exit, S_quit}

\* the partial paths completed: "", "sr", "s", "src/" and "./sr"
Partials == {<<>>, N_sr, <<"s">>, Append(N_src, SLASH), <<".", "/">> \o N_sr}

\* the directory part of a partial path (the current directory when it
\* holds no '/'), its final segment, and the text before the final segment
DirPart(P) ==
    IF LastSlash(P) = 0 THEN DOT
    ELSE IF LastSlash(P) = 1 THEN <<SLASH>>
    ELSE SubSeq(P, 1, LastSlash(P) - 1)
FinalSegment(P) == SubSeq(P, LastSlash(P) + 1, Len(P))
Stem(P) == IF StartsWith(P, <<".", "/">>) /\ LastSlash(P) = 2 THEN <<>>
           ELSE SubSeq(P, 1, LastSlash(P))

\* the candidates for P: the entries of its directory part whose names
\* start with its final segment, '/' after the directories, sorted
Candidate(P, nm) ==
    IF PathIsDir(World, Join(DirPart(P), nm)) THEN Stem(P) \o nm \o <<SLASH>>
    ELSE Stem(P) \o nm
Candidates(P) ==
    SortStrs(SetToSeq({Candidate(P, nm) :
        nm \in {x \in ReadDir(World, DirPart(P)).names : StartsWith(x, FinalSegment(P))}}))

\* C14: for a partial path P, get_path_completions gives exactly the
\* entries of P's directory part whose names start with P's final segment
\* (all of them when P is empty or ends with '/'), '/' after each directory,
\* in lexicographic order: "sr" where src/ and srv.txt are gives src/ and
\* srv.txt.
C14_CompletionsExact ==
    mode = "cli" => \A P \in Partials : get_path_completions(World, P) = Candidates(P)

\* the step is the command `clear` with the words p, or the key Ctrl+L
GuiClears(p) == \/ GuiExecuted /\ p # <<>> /\ p[1] = S_clear
                \/ mode = "gui" /\ ev'.h = "CtrlL"

\* C15: in the GUI, whatever the output buffer held before, after the
\* command `clear` or the key Ctrl+L it holds exactly one line, the cleared
\* banner; the prompt line of the clear command is discarded too.
C15_ClearLeavesBanner ==
    [][GuiClears(GuiParts) => output' = <<Cleared>>]_vars

\* `help` then `clear`: the help text and both prompt lines are gone
C15_Witness ==
    /\ mode = "gui"
    /\ Executed(ev)
    /\ ev.cmd = Words(<<S_clear>>)
    /\ Len(command_history) = 2
    /\ command_history[1] = Words(<<S_help>>)
    /\ command_history[2] = Words(<<S_clear>>)
    /\ output = <<Cleared>>

\* the rm with the words p is without -r and -R
NotRecursive(p) == ~HasFlag(Tail(p), "r") /\ ~HasFlag(Tail(p), "R")
\* the entry q of the file system is the directory at d or lies under it
Under(q, d) == Len(d) <= Len(q) /\ SubSeq(q, 1, Len(d)) = d
\* the directory named s, and all under it, is after the step as before
Kept(s) ==
    \A q \in DOMAIN fs :
        Under(q, Stat(World, s).p) => q \in DOMAIN fs' /\ fs'[q] = fs[q]
\* the report of each target t of ts as a directory: k t: e
IsADirectory(k, ts, e) == [i \in 1..Len(ts) |-> Msg(k, ts[i], e)]
CliAllDirs(ts) == \A i \in 1..Len(ts) : PathIsDir(World, ts[i])
GuiAllDirs(ts) == \A i \in 1..Len(ts) : PathIsDir(World, GuiPath(current_dir, ts[i]))

\* an rm with the words p, without -r: each target that is a directory is
\* reported and kept, and when all are, nothing else is written or removed
CliRmDir(p) ==
    (IsRm(p) /\ NotRecursive(p))
    => /\ \A i \in 1..Len(Targets(Tail(p))) :
              PathIsDir(World, Targets(Tail(p))[i])
              => /\ Kept(Targets(Tail(p))[i])
                 /\ \E j \in Len(cli_out) + 1..Len(cli_out') :
                        cli_out'[j] = Msg("rm: cannot remove", Targets(Tail(p))[i],
                                          "Is a directory")
       /\ CliAllDirs(Targets(Tail(p)))
          => /\ fs' = fs
             /\ cli_out' = cli_out \o IsADirectory("rm: cannot remove", Targets(Tail(p)),
                                                   "Is a directory")
GuiRmDir(p) ==
    (IsRm(p) /\ NotRecursive(p))
    => /\ \A i \in 1..Len(Targets(Tail(p))) :
              PathIsDir(World, GuiPath(current_dir, Targets(Tail(p))[i]))
              => /\ Kept(GuiPath(current_dir, Targets(Tail(p))[i]))
                 /\ \E j \in 1..Len(output') :
                        output'[j] = Msg("rm", Targets(Tail(p))[i], "Is a directory (use -r)")
       /\ GuiAllDirs(Targets(Tail(p)))
          => /\ fs' = fs
             /\ output' = TrimOutput(Append(output, GuiEchoLine)
                              \o IsADirectory("rm", Targets(Tail(p)), "Is a directory (use -r)"))

\* C16: an rm without -r and -R reports "Is a directory" for a target that
\* is an existing directory and removes neither the directory nor anything
\* under it, with -f and without it, in both front ends.
C16_RmDirectoryRefused ==
    [][/\ CliDispatched => CliRmDir(CliParts)
       /\ GuiExecuted => GuiRmDir(GuiParts)]_vars

\* the CLI has run `rm -f src` on the directory src, which holds lib
C16_Witness ==
    /\ mode = "cli"
    /\ pc = "end"
    /\ ev.cmd = Words(<<S_rm, O_f, N_src>>)
    /\ PathIsDir(World, N_src)
    /\ <<N_src, N_lib>> \in DOMAIN fs
    /\ cli_out[Len(cli_out)] = Msg("rm: cannot remove", N_src, "Is a directory")

\* the path a `cd` with the words p resolves: $HOME when it has no argument
GuiCdTarget(p) == GuiPath(current_dir, IF Len(p) = 1 THEN Home ELSE p[2])
\* the step is a `cd` with the words p to a directory that exists, and
\* current_dir becomes its canonical path
GuiCdMoves(p) ==
    /\ GuiExecuted
    /\ p # <<>>
    /\ p[1] = S_cd
    /\ PathExists(World, GuiCdTarget(p))
    /\ PathIsDir(World, GuiCdTarget(p))
    /\ current_dir' = PathStr(Stat(World, GuiCdTarget(p)).p)

\* C17: in the GUI only `cd` changes current_dir, and only when the path it
\* resolves exists and is a directory; every other command line and every
\* Up, Down and Ctrl+L leaves current_dir as it was.
C17_OnlyCdMoves ==
    [][(mode = "gui" /\ current_dir' # current_dir) => GuiCdMoves(GuiParts)]_vars

\* `cd src` has moved the GUI from / to /src
C17_Witness ==
    /\ mode = "gui"
    /\ Executed(ev)
    /\ ev.cmd = Words(<<S_cd, N_src>>)
    /\ current_dir = PathStr(<<N_src>>)
    /\ output[Len(output)] = Msg("Changed to:", PathStr(<<N_src>>), "")

====
